---- MODULE Spec2Model ----
(***************************************************************************)
(* Model of the Chinese-Calendar generator (src/main.py).                  *)
(*                                                                         *)
(* A run of the program is one process: CalendarGenerator.run() calls      *)
(* ensure_data_file, parse_holidays, process_holiday_events,               *)
(* add_traditional_events and save_file in that order.  Three files        *)
(* outlive a process: the dataset copy, the traditional-event cache and    *)
(* the published .ics document.                                            *)
(*                                                                         *)
(* Representation.                                                         *)
(*  - A datetime is a record [ord, hour, minute, second]; ord is the       *)
(*    proleptic Gregorian ordinal (datetime.toordinal()).                  *)
(*  - Python strings are TLA+ strings (Len, \o and SubSeq act on them as   *)
(*    len, + and slicing do).  Chinese text is written in pinyin, the      *)
(*    original beside it in a comment.                                     *)
(*  - md5 digests are not computed: a digest is a string that carries      *)
(*    the digested text, i.e. an injective stand-in for the hash.          *)
(*  - JSON documents are the decoded values; a byte string that is not     *)
(*    JSON has valid = FALSE.                                              *)
(*  - The lunar oracle (lunar_python) is a pure function of the date,      *)
(*    drawn at Init from a bounded family of almanacs.                     *)
(***************************************************************************)
EXTENDS Integers, Sequences, FiniteSets, TLC

VARIABLES
    \* ---- files that outlive a process
    data_file,               \* DATA_FILENAME
    cache_file,              \* TRADITIONAL_CACHE_FILENAME
    output_file,             \* OUTPUT_FILENAME
    \* ---- environment
    net,                     \* what requests.get / the disk do, per run
    oracle,                  \* the almanac behind lunar_python
    now,                     \* wall clock, seconds
    \* ---- compiled-in configuration
    TRADITIONAL_START_YEAR,
    TRADITIONAL_END_YEAR,
    \* ---- the CalendarGenerator object
    events,
    raw_data,
    holiday_groups,
    traditional_cache_list,
    \* ---- position of the process and locals of add_traditional_events
    pc,
    year,
    curr,
    looking_for_rumei,
    looking_for_chumei,
    exit_status,
    \* ---- observation of the run (history)
    run_no,                  \* number of the current process, 1..MaxRuns
    path,                    \* "none" | "replay" | "recompute"
    mark0,                   \* Len(events) when add_traditional_events began
    mark,                    \* Len(events) when the recomputation began
    oracle_queries,          \* lunar-oracle queries made by this process
    cache_writes,            \* writes of the cache file by this process
    fetch,                   \* how ensure_data_file went in this process
    hist,                    \* one record per finished process
    \* ---- argument and result of a function applied on its own
    args,
    ret

vars == <<data_file, cache_file, output_file, net, oracle, now,
          TRADITIONAL_START_YEAR, TRADITIONAL_END_YEAR,
          events, raw_data, holiday_groups, traditional_cache_list,
          pc, year, curr, looking_for_rumei, looking_for_chumei, exit_status,
          run_no, path, mark0, mark, oracle_queries, cache_writes, fetch, hist,
          args, ret>>

-----------------------------------------------------------------------------
(* Bounds of the model.                                                    *)

\* number of dates in an argument list of get_consecutive_blocks
MaxLen == 4
\* the dates of an argument list lie within MaxSpan days of the first
\* one; the holidays of a group under study lie within MaxSpan days
MaxSpan == 4
\* largest ordinal N passed to create_dynamic_solar_event on its own
MaxNth == 5
\* number of successive processes
MaxRuns == 2
\* number of years after 1995 a yearly pass is studied for on its own
MaxYears == 35
\* the longest text folded
MaxText == 150

-----------------------------------------------------------------------------------------------------------------------------------------------------
(* Sequences and strings.                                                  *)

None == 0

Min(S) == CHOOSE m \in S : \A k \in S : m <= k
Max(S) == CHOOSE m \in S : \A k \in S : k <= m

\* sorted(list(S)) for a set of integers
\* the function f on 1..n as a list
List(f) == f \o <<>>

SortedSeq(S) ==
    List([i \in 1..Cardinality(S) |->
            CHOOSE x \in S : Cardinality({y \in S : y < x}) = i - 1])

Range(s) == {s[i] : i \in 1..Len(s)}

RECURSIVE FlattenRange(_, _, _)
\* ss[lo] \o ... \o ss[hi], halving the range
FlattenRange(ss, lo, hi) ==
    IF lo > hi THEN <<>>
    ELSE IF lo = hi THEN ss[lo]
    ELSE LET mid == (lo + hi) \div 2
         IN FlattenRange(ss, lo, mid) \o FlattenRange(ss, mid + 1, hi)

\* the concatenation of a list of lists
Flatten(ss) == LET lists == List(ss) IN FlattenRange(lists, 1, Len(lists))

RECURSIVE JoinRange(_, _, _, _)
JoinRange(parts, sep, lo, hi) ==
    IF lo = hi THEN parts[lo]
    ELSE LET mid == (lo + hi) \div 2
         IN JoinRange(parts, sep, lo, mid) \o sep \o JoinRange(parts, sep, mid + 1, hi)

\* sep.join(parts)
Join(parts, sep) == IF Len(parts) = 0 THEN "" ELSE JoinRange(parts, sep, 1, Len(parts))

CharAt(s, i) == SubSeq(s, i, i)

Digits == "0123456789"
IsDigit(c) == \E i \in 1..10 : CharAt(Digits, i) = c
AllDigits(s) == \A i \in 1..Len(s) : IsDigit(CharAt(s, i))

RECURSIVE ParseInt(_)
\* int(s) for a string of decimal digits
ParseInt(s) ==
    IF Len(s) = 0 THEN 0
    ELSE 10 * ParseInt(SubSeq(s, 1, Len(s) - 1))
         + (CHOOSE i \in 1..10 : CharAt(Digits, i) = CharAt(s, Len(s))) - 1

\* "%0wd" % n for 0 <= n and w <= 4
Pad(n, w) == LET s == ToString(n) IN SubSeq("0000", 1, w - Len(s)) \o s

\* position of the first occurrence of pat in s, 0 when there is none
Find(s, pat) ==
    LET hits == {i \in 1..(Len(s) - Len(pat) + 1) :
                    SubSeq(s, i, i + Len(pat) - 1) = pat}
    IN IF hits = {} THEN 0 ELSE Min(hits)

\* s.split(sep) for a one-character sep
Split(s, sep) ==
    LET cuts == SortedSeq({i \in 1..Len(s) : CharAt(s, i) = sep})
        from(k) == IF k = 1 THEN 1 ELSE cuts[k - 1] + 1
        to(k) == IF k > Len(cuts) THEN Len(s) ELSE cuts[k] - 1
    IN List([k \in 1..(Len(cuts) + 1) |-> SubSeq(s, from(k), to(k))])

-----------------------------------------------------------------------------
(* datetime: the proleptic Gregorian calendar.                             *)

IsLeap(y) == (y % 4 = 0) /\ ((y % 100 # 0) \/ (y % 400 = 0))

DaysInMonth(y, m) ==
    IF m = 2 THEN (IF IsLeap(y) THEN 29 ELSE 28)
    ELSE IF m \in {4, 6, 9, 11} THEN 30 ELSE 31

\* days before January 1 of year y
DaysBeforeYear(y) ==
    LET p == y - 1 IN p * 365 + (p \div 4) - (p \div 100) + (p \div 400)

\* days of the year before the first of month m
DaysBeforeMonth(y, m) ==
    <<0, 31, 59, 90, 120, 151, 181, 212, 243, 273, 304, 334>>[m]
    + (IF m > 2 /\ IsLeap(y) THEN 1 ELSE 0)

ValidYmd(y, m, d) ==
    /\ y \in 1..9999 /\ m \in 1..12 /\ d >= 1 /\ d <= DaysInMonth(y, m)

\* datetime(y, m, d).toordinal()
Ord(y, m, d) == DaysBeforeYear(y) + DaysBeforeMonth(y, m) + d

\* the year, month and day of the date of ordinal n
Ymd(n) ==
    LET in_month(y, k, m) == [y |-> y, m |-> m, d |-> k - DaysBeforeMonth(y, m)]
        in_year(y, k) ==
            in_month(y, k, CHOOSE c \in 1..12 :
                              /\ DaysBeforeMonth(y, c) < k
                              /\ k <= DaysBeforeMonth(y, c) + DaysInMonth(y, c))
        of_year(y) == in_year(y, n - DaysBeforeYear(y))
    IN of_year(CHOOSE c \in (n \div 366)..((n \div 365) + 1) :
                  DaysBeforeYear(c) < n /\ n <= DaysBeforeYear(c + 1))

YearOf(n) == Ymd(n).y
MonthOf(n) == Ymd(n).m
DayOf(n) == Ymd(n).d

\* datetime.weekday(): Monday is 0
Weekday(n) == (n + 6) % 7

\* a datetime value; every datetime of the program has minute = second = 0
DateTime(n, h) == [ord |-> n, hour |-> h, minute |-> 0, second |-> 0]
Midnight(n) == DateTime(n, 0)

\* dt + timedelta(days=k)
PlusDays(dt, k) == [dt EXCEPT !.ord = dt.ord + k]

\* dt.strftime("%Y%m%d")
StrfYmd(dt) ==
    LET fields(c) == Pad(c.y, 4) \o Pad(c.m, 2) \o Pad(c.d, 2)
    IN fields(Ymd(dt.ord))

\* dt.strftime("%Y%m%dT%H%M%S")
StrfYmdHms(dt) ==
    StrfYmd(dt) \o "T" \o Pad(dt.hour, 2) \o Pad(dt.minute, 2) \o Pad(dt.second, 2)

\* the numbers in the three digit fields of s are a date
FieldsValid(s, y1, y2, m1, m2, d1, d2) ==
    /\ AllDigits(SubSeq(s, y1, y2)) /\ AllDigits(SubSeq(s, m1, m2))
    /\ AllDigits(SubSeq(s, d1, d2))
    /\ ValidYmd(ParseInt(SubSeq(s, y1, y2)), ParseInt(SubSeq(s, m1, m2)),
                ParseInt(SubSeq(s, d1, d2)))

FieldsDate(s, y1, y2, m1, m2, d1, d2) ==
    Midnight(Ord(ParseInt(SubSeq(s, y1, y2)), ParseInt(SubSeq(s, m1, m2)),
                 ParseInt(SubSeq(s, d1, d2))))

\* datetime.strptime(s, "%Y%m%d") succeeds: eight digits that name a date
CanStrpYmd(s) == Len(s) = 8 /\ FieldsValid(s, 1, 4, 5, 6, 7, 8)

\* datetime.strptime(s, "%Y%m%d")
StrpYmd(s) == FieldsDate(s, 1, 4, 5, 6, 7, 8)

\* datetime.strptime(s, "%Y-%m-%d") succeeds: dddd-dd-dd naming a date
CanStrpIso(s) ==
    /\ Len(s) = 10
    /\ CharAt(s, 5) = "-" /\ CharAt(s, 8) = "-"
    /\ FieldsValid(s, 1, 4, 6, 7, 9, 10)

\* datetime.strptime(s, "%Y-%m-%d")
StrpIso(s) == FieldsDate(s, 1, 4, 6, 7, 9, 10)

-----------------------------------------------------------------------------
(* Helper functions of the program.                                        *)

\* 周一 .. 周日
weeks == <<"ZhouYi", "ZhouEr", "ZhouSan", "ZhouSi", "ZhouWu", "ZhouLiu", "ZhouRi">>

get_week_name(date_obj) == weeks[Weekday(date_obj.ord) + 1]

format_ics_date(dt_obj, is_full_day) ==
    IF is_full_day THEN StrfYmd(dt_obj) ELSE StrfYmdHms(dt_obj)

generate_uid(date_str, suffix) == date_str \o "_" \o suffix \o "@365day.top"

\* the clock reads 2026-11-01 11:00:00 local time (03:00:00 UTC) plus now
\* seconds, now < 60
get_now_utc_stamp == "20261101T0300" \o Pad(now, 2) \o "Z"

get_now_display == "2026-11-01 11:00:" \o Pad(now, 2)

\* hashlib.md5(text.encode()).hexdigest()[:12], as an injective stand-in
Md5Hex12(text) == "md5<" \o text \o ">"

FoldWidth == 50

RECURSIVE fold_lines_without_marker(_)
\* the loop of fold_line with text = text[50:]
fold_lines_without_marker(text) ==
    IF Len(text) > FoldWidth
    THEN <<SubSeq(text, 1, FoldWidth)>>
         \o fold_lines_without_marker(SubSeq(text, FoldWidth + 1, Len(text)))
    ELSE <<text>>

RECURSIVE fold_lines(_)
\* the list `result` of fold_line
fold_lines(text) ==
    IF Len(text) > FoldWidth
    THEN <<SubSeq(text, 1, FoldWidth)>>
         \o fold_lines(" " \o SubSeq(text, FoldWidth + 1, Len(text)))
    ELSE <<text>>

fold_line(text) == Join(fold_lines(text), "\r\n")

-----------------------------------------------------------------------------
(* Holiday grouper.                                                        *)

RECURSIVE ScanBlocks(_, _, _, _)
\* the loop of get_consecutive_blocks from index i on
ScanBlocks(sorted_dates, i, blocks, current_block) ==
    IF i > Len(sorted_dates) THEN Append(blocks, current_block)
    ELSE IF sorted_dates[i] - sorted_dates[i - 1] = 1
         THEN ScanBlocks(sorted_dates, i + 1, blocks,
                         Append(current_block, sorted_dates[i]))
         ELSE ScanBlocks(sorted_dates, i + 1, Append(blocks, current_block),
                         <<sorted_dates[i]>>)

\* get_consecutive_blocks without the append after the loop
get_consecutive_blocks_open_end(dates) ==
    IF Len(dates) = 0 THEN <<>>
    ELSE LET sorted_dates == SortedSeq(Range(dates))
             blocks == ScanBlocks(sorted_dates, 2, <<>>, <<sorted_dates[1]>>)
         IN SubSeq(blocks, 1, Len(blocks) - 1)

\* dates: a list of ordinals (all dates of the program are midnights)
get_consecutive_blocks(dates) ==
    IF Len(dates) = 0 THEN <<>>
    ELSE LET sorted_dates == SortedSeq(Range(dates))
         IN ScanBlocks(sorted_dates, 2, <<>>, <<sorted_dates[1]>>)

\* the +-20 days of check_start and check_end
WindowDays == 20

\* 月 日 （ ） 至 放假调休 放假 ，共 天。 、 上班。
generate_block_description(name, h_dates, w_dates) ==
    IF Len(h_dates) = 0 THEN ""
    ELSE LET start == Midnight(h_dates[1])
             end == Midnight(h_dates[Len(h_dates)])
             count == Len(h_dates)
             md(dt) == ToString(MonthOf(dt.ord)) \o "Yue" \o ToString(DayOf(dt.ord))
                       \o "Ri(" \o get_week_name(dt) \o ")"
             head == name \o ":" \o md(start)
             span == IF count > 1
                     THEN "Zhi" \o ToString(DayOf(end.ord)) \o "Ri("
                          \o get_week_name(end) \o ")FangJiaTiaoXiu"
                     ELSE "FangJia"
             total == ",Gong" \o ToString(count) \o "Tian."
             w_desc_list == List([i \in 1..Len(w_dates) |-> md(Midnight(w_dates[i]))])
             work == IF Len(w_dates) > 0
                     THEN " " \o Join(w_desc_list, ",") \o "ShangBan."
                     ELSE ""
         IN head \o span \o total \o work

\* related_workdays with the ends of the window left out
related_workdays_open_window(all_w_dates, block) ==
    LET check_start == block[1] - WindowDays
        check_end == block[Len(block)] + WindowDays
    IN SelectSeq(all_w_dates, LAMBDA wd : check_start < wd /\ wd < check_end)

\* the workdays of the group that lie in the window of the block
related_workdays(all_w_dates, block) ==
    LET check_start == block[1] - WindowDays
        check_end == block[Len(block)] + WindowDays
    IN SelectSeq(all_w_dates, LAMBDA wd : check_start <= wd /\ wd <= check_end)

\* the holiday-block event; 假期
HolidayBlockEvent(name, block, description, now_stamp) ==
    LET start_dt == Midnight(block[1])
        end_dt == Midnight(block[Len(block)])
        ics_end_dt == PlusDays(end_dt, 1)
    IN [dtstart |-> format_ics_date(start_dt, TRUE),
        dtend |-> format_ics_date(ics_end_dt, TRUE),
        uid |-> generate_uid(StrfYmd(start_dt), "holiday_block"),
        created |-> now_stamp,
        description |-> description,
        summary |-> name \o " JiaQi",
        status |-> "CONFIRMED",
        transp |-> "TRANSPARENT",
        is_allday |-> TRUE]

\* the compensatory-workday event of the i-th related workday; 补班 补班提醒：
WorkdayEvent(name, wd, i, description, now_stamp) ==
    LET w_summary == name \o " BuBan"
        w_start == DateTime(wd, 9)
        w_end == DateTime(wd, 18)
    IN [dtstart |-> format_ics_date(w_start, FALSE),
        dtend |-> format_ics_date(w_end, FALSE),
        uid |-> generate_uid(StrfYmd(Midnight(wd)), "work_" \o ToString(i)),
        created |-> now_stamp,
        description |-> description,
        summary |-> w_summary,
        status |-> "TENTATIVE",
        transp |-> "OPAQUE",
        is_allday |-> FALSE,
        alarm |-> "BuBanTiXing:" \o w_summary]

\* the events one block appends
BlockEvents(name, block, all_w_dates, now_stamp) ==
    LET rel == related_workdays(all_w_dates, block)
        description == generate_block_description(name, block, rel)
    IN <<HolidayBlockEvent(name, block, description, now_stamp)>>
       \o [i \in 1..Len(rel) |-> WorkdayEvent(name, rel[i], i - 1, description, now_stamp)]

\* the events one holiday group appends
GroupEvents(data, now_stamp) ==
    LET all_h_dates == data.holidays
        all_w_dates == SortedSeq(Range(data.workdays))
        blocks == get_consecutive_blocks(all_h_dates)
    IN Flatten([i \in 1..Len(blocks) |->
                  BlockEvents(data.name, blocks[i], all_w_dates, now_stamp)])

\* self.events after process_holiday_events
process_holiday_events(evs, groups, now_stamp) ==
    evs \o Flatten([i \in 1..Len(groups) |-> GroupEvents(groups[i], now_stamp)])

-----------------------------------------------------------------------------
(* The dataset: decoded JSON values and parse_holidays.                    *)

JStr(s) == [type |-> "str", s |-> s, items |-> <<>>]
JDict(items) == [type |-> "dict", s |-> "", items |-> items]
Item(k, v) == [key |-> k, val |-> v]

HasKey(d, k) == \E i \in 1..Len(d.items) : d.items[i].key = k

\* d.get(k, default)
DictGet(d, k, default) ==
    IF HasKey(d, k)
    THEN d.items[CHOOSE i \in 1..Len(d.items) : d.items[i].key = k].val
    ELSE default

\* the display name of a dataset entry, "" when there is none
cn_name_of(val) ==
    IF val.type = "str"
    THEN LET parts == Split(val.s, ",")
         IN IF Len(parts) >= 2 THEN parts[2] ELSE ""
    ELSE IF val.type = "dict"
    THEN DictGet(val, "name", JStr("")).s
    ELSE ""

GroupIndex(groups, name) ==
    IF \E i \in 1..Len(groups) : groups[i].name = name
    THEN CHOOSE i \in 1..Len(groups) : groups[i].name = name
    ELSE 0

\* one iteration of the loop of process_dates
process_entry(temp_groups, date_str, val, is_workday) ==
    LET cn_name == cn_name_of(val)
    IN IF cn_name = "" THEN temp_groups
       ELSE LET g1 == IF GroupIndex(temp_groups, cn_name) = 0
                      THEN Append(temp_groups, [name |-> cn_name,
                                                holidays |-> <<>>,
                                                workdays |-> <<>>])
                      ELSE temp_groups
                k == GroupIndex(g1, cn_name)
            IN IF ~CanStrpIso(date_str) THEN g1
               ELSE LET dt == StrpIso(date_str).ord
                    IN IF is_workday
                       THEN [g1 EXCEPT ![k].workdays = Append(@, dt)]
                       ELSE [g1 EXCEPT ![k].holidays = Append(@, dt)]

RECURSIVE process_dates(_, _, _)
process_dates(temp_groups, date_map, is_workday) ==
    IF Len(date_map) = 0 THEN temp_groups
    ELSE process_dates(process_entry(temp_groups, date_map[1].key,
                                     date_map[1].val, is_workday),
                       Tail(date_map), is_workday)

\* self.holiday_groups after parse_holidays
parse_holidays(raw) ==
    LET holidays_map == DictGet(raw, "holidays", JDict(<<>>)).items
        workdays_map == DictGet(raw, "workdays", JDict(<<>>)).items
        g1 == process_dates(<<>>, holidays_map, FALSE)
        g2 == process_dates(g1, workdays_map, TRUE)
    IN IF Len(holidays_map) = 0 /\ Len(workdays_map) = 0 /\ Len(raw.items) > 0
       THEN process_dates(g2, raw.items, FALSE)
       ELSE g2

-----------------------------------------------------------------------------
(* Festival tables.                                                        *)

F(k, v) == [key |-> k, name |-> v]

\* 公历固定节日, in the order of the dict
FIXED_FESTIVALS_SOLAR == <<
    F("01-10", "ZhongGuoRenMinJingChaJie"),   \* 中国人民警察节
    F("02-14", "QingRenJie"),                 \* 情人节
    F("03-08", "FuNvJie"),                    \* 妇女节
    F("03-12", "ZhiShuJie"),                  \* 植树节
    F("03-15", "XiaoFeiZheQuanYiRi"),         \* 消费者权益日
    F("04-01", "YuRenJie"),                   \* 愚人节
    F("04-22", "ShiJieDiQiuRi"),              \* 世界地球日
    F("04-23", "ShiJieDuShuRi"),              \* 世界读书日
    F("05-04", "QingNianJie"),                \* 青年节
    F("05-12", "HuShiJie"),                   \* 护士节
    F("06-01", "ErTongJie"),                  \* 儿童节
    F("06-05", "ShiJieHuanJingRi"),           \* 世界环境日
    F("06-26", "GuoJiJinDuRi"),               \* 国际禁毒日
    F("07-01", "JianDangJie"),                \* 建党节
    F("07-07", "QiQiShiBian"),                \* 七七事变
    F("08-01", "JianJunJie"),                 \* 建军节
    F("08-15", "RiBenTouXiangRi"),            \* 日本投降日
    F("09-03", "KangZhanShengLiJiNianRi"),    \* 抗战胜利纪念日
    F("09-10", "JiaoShiJie"),                 \* 教师节
    F("09-18", "JiuYiBaShiBian"),             \* 九一八事变
    F("09-30", "LieShiJiNianRi"),             \* 烈士纪念日
    F("10-01", "GuoQingJie"),                 \* 国庆节
    F("10-10", "XinHaiGeMingJiNianRi"),       \* 辛亥革命纪念日
    F("10-24", "ChengXuYuanJie"),             \* 程序员节
    F("10-25", "TaiWanGuangFuJiNianRi"),      \* 台湾光复纪念日
    F("10-31", "WanShengYe"),                 \* 万圣夜
    F("11-08", "JiZheJie"),                   \* 记者节
    F("12-13", "GuoJiaGongJiRi"),             \* 国家公祭日
    F("12-20", "AoMenHuiGuiJiNianRi"),        \* 澳门回归纪念日
    F("12-24", "PingAnYe"),                   \* 平安夜
    F("12-25", "ShengDanJie") >>              \* 圣诞节

\* 农历固定节日; key = <<lunar month, lunar day>>
FIXED_FESTIVALS_LUNAR == <<
    F(<<1, 15>>, "YuanXiaoJie"),              \* 元宵节
    F(<<2, 2>>, "LongTaiTou"),                \* 龙抬头
    F(<<3, 3>>, "ShangSiJie"),                \* 上巳节
    F(<<5, 5>>, "DuanWuJie"),                 \* 端午节
    F(<<7, 7>>, "QiXiJie"),                   \* 七夕节
    F(<<7, 15>>, "ZhongYuanJie"),             \* 中元节
    F(<<8, 15>>, "ZhongQiuJie"),              \* 中秋节
    F(<<9, 9>>, "ChongYangJie"),              \* 重阳节
    F(<<10, 1>>, "HanYiJie"),                 \* 寒衣节
    F(<<10, 15>>, "XiaYuanJie"),              \* 下元节
    F(<<12, 8>>, "LaBaJie"),                  \* 腊八节
    F(<<12, 16>>, "WeiYa"),                   \* 尾牙
    F(<<12, 23>>, "BeiFangXiaoNian"),         \* 北方小年
    F(<<12, 24>>, "NanFangXiaoNian") >>       \* 南方小年

InTable(table, k) == \E i \in 1..Len(table) : table[i].key = k
Lookup(table, k) == table[CHOOSE i \in 1..Len(table) : table[i].key = k].name

-----------------------------------------------------------------------------
(* The lunar oracle.  An almanac o fixes, for every year alike, the solar  *)
(* dates of the solar terms it reports, the phase of the 10-stem and       *)
(* 12-branch day cycles, the date of the lunar new year (lunar months of   *)
(* 30 days follow it, the twelfth runs to the next new year), the first    *)
(* day of the shu-jiu count (nine periods of nine days) and the first day  *)
(* of the dog days (three periods of ten days).                            *)

\* 甲 乙 丙 丁 戊 己 庚 辛 壬 癸
GanNames == <<"Jia", "Yi", "Bing", "Ding", "Wu", "Ji", "Geng", "Xin", "Ren", "Gui">>
\* 子 丑 寅 卯 辰 巳 午 未 申 酉 戌 亥
ZhiNames == <<"Zi", "Chou", "Yin", "Mao", "Chen", "Si", "Wu", "Wei", "Shen",
              "You", "Xu", "Hai">>
\* 正 二 三 四 五 六 七 八 九 十 冬 腊
MonthCnNames == <<"Zheng", "Er", "San", "Si", "Wu", "Liu", "Qi", "Ba", "Jiu",
                  "Shi", "Dong", "La">>
\* 一九 .. 九九
ShuJiuNames == <<"YiJiu", "ErJiu", "SanJiu", "SiJiu", "WuJiu", "LiuJiu", "QiJiu",
                 "BaJiu", "JiuJiu">>
\* 初伏 中伏 末伏
FuNames == <<"ChuFu", "ZhongFu", "MoFu">>

Absent == [present |-> FALSE, index |-> 0, name |-> ""]
Period(i, nm) == [present |-> TRUE, index |-> i, name |-> nm]

\* days since the latest occurrence, at or before n, of the yearly date md
SinceYearly(md, n) ==
    LET since(a, b) == IF a <= n THEN n - a ELSE n - b
        in_year(y) == since(Ord(y, md[1], md[2]), Ord(y - 1, md[1], md[2]))
    IN in_year(YearOf(n))

\* lunar.getJieQi()
OracleJieQi(o, n) ==
    LET term(hit) == IF hit = {} THEN "" ELSE o.terms[Min(hit)].name
        on(c) == term({i \in 1..Len(o.terms) : o.terms[i].key = <<c.m, c.d>>})
    IN on(Ymd(n))

\* lunar.getDayGan(), lunar.getDayZhi()
OracleDayGan(o, n) == GanNames[((n + o.gan0) % 10) + 1]
OracleDayZhi(o, n) == ZhiNames[((n + o.zhi0) % 12) + 1]

\* Solar.fromYmd(y, m, d).getLunar() for the date of ordinal n
Lunar(o, n) ==
    LET at(k, j, f) ==
          LET lm == IF k \div 30 >= 11 THEN 12 ELSE (k \div 30) + 1
              ld == k - 30 * (lm - 1) + 1
          IN [month |-> lm,
              day |-> ld,
              jieqi |-> OracleJieQi(o, n),
              gan |-> OracleDayGan(o, n),
              zhi |-> OracleDayZhi(o, n),
              shujiu |-> IF j < 81
                         THEN Period((j % 9) + 1, ShuJiuNames[(j \div 9) + 1])
                         ELSE Absent,
              fu |-> IF f >= 0 /\ f < 30
                     THEN Period((f % 10) + 1, FuNames[(f \div 10) + 1])
                     ELSE Absent,
              month_cn |-> MonthCnNames[lm]]
    IN at(SinceYearly(o.lny, n), SinceYearly(o.jiu, n),
          n - Ord(YearOf(n), o.fu[1], o.fu[2]))

-----------------------------------------------------------------------------
(* Traditional event deriver.  The deriver grows two lists, self.events    *)
(* and self.traditional_cache_list; st is the pair of them.  A pass is     *)
(* described by its emissions, the argument lists of its calls of          *)
(* _record_traditional_event, in the order of the calls.                   *)

\* the dict create_event appends to self.events
new_event(start_dt, end_dt, summary, description, is_allday) ==
    LET unique_str == StrfYmd(start_dt) \o "-" \o summary
        uid_hash == Md5Hex12(unique_str)
    IN [dtstart |-> format_ics_date(start_dt, is_allday),
        dtend |-> format_ics_date(end_dt, is_allday),
        uid |-> generate_uid(StrfYmd(start_dt), uid_hash),
        created |-> get_now_utc_stamp,
        description |-> description,
        summary |-> summary,
        status |-> "CONFIRMED",
        transp |-> "TRANSPARENT",
        is_allday |-> is_allday]

create_event(evs, start_dt, end_dt, summary, description, is_allday) ==
    Append(evs, new_event(start_dt, end_dt, summary, description, is_allday))

\* Snapshot with the start date stored as the end date
SnapshotEndIsStart(start_dt, end_dt, summary, description, is_allday) ==
    [start |-> StrfYmd(start_dt),
     end |-> StrfYmd(start_dt),
     summary |-> summary,
     description |-> description,
     is_allday |-> is_allday]

\* the snapshot appended to traditional_cache_list
Snapshot(start_dt, end_dt, summary, description, is_allday) ==
    [start |-> StrfYmd(start_dt),
     end |-> StrfYmd(end_dt),
     summary |-> summary,
     description |-> description,
     is_allday |-> is_allday]

_record_traditional_event(st, start_dt, end_dt, summary, description, is_allday) ==
    [events |-> create_event(st.events, start_dt, end_dt, summary, description,
                             is_allday),
     traditional_cache_list |->
        Append(st.traditional_cache_list,
               Snapshot(start_dt, end_dt, summary, description, is_allday))]

\* Emission with end_dt = start_dt
EmissionWithoutDay(n, summary, description) ==
    [start_dt |-> Midnight(n), end_dt |-> Midnight(n),
     summary |-> summary, description |-> description, is_allday |-> TRUE]

\* the arguments of _record_traditional_event(dt, dt + timedelta(days=1),
\* summary, description) for the day of ordinal n
Emission(n, summary, description) ==
    [start_dt |-> Midnight(n), end_dt |-> PlusDays(Midnight(n), 1),
     summary |-> summary, description |-> description, is_allday |-> TRUE]

\* st after the calls of _record_traditional_event listed in emits
record_all(st, emits) ==
    LET one == List([i \in 1..Len(emits) |->
                  _record_traditional_event(
                      [events |-> <<>>, traditional_cache_list |-> <<>>],
                      emits[i].start_dt,
                      emits[i].end_dt, emits[i].summary, emits[i].description,
                      emits[i].is_allday)])
    IN [events |-> st.events \o Flatten([i \in 1..Len(emits) |-> one[i].events]),
        traditional_cache_list |->
            st.traditional_cache_list
            \o Flatten([i \in 1..Len(emits) |-> one[i].traditional_cache_list])]

\* 香港回归纪念日(N周年) 澳门回归纪念日(N周年)
HongKongTitle(anniversary) ==
    "XiangGangHuiGuiJiNianRi(" \o ToString(anniversary) \o "ZhouNian)"
MacauTitle(anniversary) ==
    "AoMenHuiGuiJiNianRi(" \o ToString(anniversary) \o "ZhouNian)"

\* anniversary = year - 1997, anniversary = year - 1999
hongkong_anniversary(y) == y - 1997
macau_anniversary_from_1998(y) == y - 1998
macau_anniversary(y) == y - 1999

\* the body of the loop over FIXED_FESTIVALS_SOLAR for one entry;
\* 公历节日 纪念日
fixed_solar_entry(y, date_str, name) ==
    LET text == ToString(y) \o "-" \o date_str
    IN IF ~CanStrpIso(text) THEN <<>>
       ELSE LET dt == StrpIso(text).ord
            IN IF date_str = "07-01"
               THEN <<Emission(dt, name, "GongLiJieRi")>>
                    \o (IF hongkong_anniversary(y) > 0
                        THEN <<Emission(dt, HongKongTitle(hongkong_anniversary(y)),
                                        "JiNianRi")>>
                        ELSE <<>>)
               ELSE IF date_str = "12-20"
               THEN IF macau_anniversary(y) > 0
                    THEN <<Emission(dt, MacauTitle(macau_anniversary(y)), "JiNianRi")>>
                    ELSE <<Emission(dt, name, "GongLiJieRi")>>
               ELSE <<Emission(dt, name, "GongLiJieRi")>>

\* the loop over FIXED_FESTIVALS_SOLAR for year y
fixed_solar_pass(y) ==
    Flatten([i \in 1..Len(FIXED_FESTIVALS_SOLAR) |->
        fixed_solar_entry(y, FIXED_FESTIVALS_SOLAR[i].key,
                          FIXED_FESTIVALS_SOLAR[i].name)])

\* create_dynamic_solar_event without the test of target_date.month
create_dynamic_solar_event_any_month(y, month, target_weekday, nth, name) ==
    LET first_day == Ord(y, month, 1)
        delta_days == (target_weekday - Weekday(first_day) + 7) % 7
        target_date == first_day + delta_days + 7 * (nth - 1)
    IN [emits |-> <<Emission(target_date, name, "GongLiDongTaiJieRi")>>,
        ret |-> target_date]

\* returns the emissions and ret, the ordinal of target_date or None;
\* 公历动态节日
create_dynamic_solar_event(y, month, target_weekday, nth, name) ==
    LET first_day == Ord(y, month, 1)
        delta_days == (target_weekday - Weekday(first_day) + 7) % 7
        target_date == first_day + delta_days + 7 * (nth - 1)
    IN IF MonthOf(target_date) = month
       THEN [emits |-> <<Emission(target_date, name, "GongLiDongTaiJieRi")>>,
             ret |-> target_date]
       ELSE [emits |-> <<>>, ret |-> None]

\* 母亲节 父亲节 感恩节 黑色星期五 商业节日
dynamic_solar_pass(y) ==
    LET r1 == create_dynamic_solar_event(y, 5, 6, 2, "MuQinJie")
        r2 == create_dynamic_solar_event(y, 6, 6, 3, "FuQinJie")
        r3 == create_dynamic_solar_event(y, 11, 3, 4, "GanEnJie")
        tg_date == r3.ret
    IN r1.emits \o r2.emits \o r3.emits
       \o (IF tg_date # None
           THEN <<Emission(tg_date + 1, "HeiSeXingQiWu", "ShangYeJieRi")>>
           ELSE <<>>)

\* one iteration of the while loop, for the day of ordinal n; returns the
\* emissions and the two triggers.
\* 二十四节气 芒种 小暑 丙 未 入梅 出梅 节气民俗 初伏 入伏 进入X月 农历月份
\* 传统节日 清明 寒食节 春节 除夕
lunar_day_pass(rumei, chumei, o, n) ==
    LET when(cond, summary, description) ==
            IF cond THEN <<Emission(n, summary, description)>> ELSE <<>>
        pass(lunar, tomorrow_lunar) ==
          LET l_month == lunar.month
              l_day == lunar.day
              jie_qi == lunar.jieqi
              r1 == IF jie_qi # "" /\ jie_qi = "MangZhong" THEN TRUE ELSE rumei
              c1 == IF jie_qi # "" /\ jie_qi = "XiaoShu" THEN TRUE ELSE chumei
              hit_r == r1 /\ lunar.gan = "Bing"
              hit_c == c1 /\ lunar.zhi = "Wei"
              fu_name == IF lunar.fu.name = "ChuFu" THEN "RuFu" ELSE lunar.fu.name
              jiu_title == IF lunar.shujiu.name = "YiJiu" THEN "YiJiu"
                           ELSE lunar.shujiu.name
          IN [emits |->
                when(jie_qi # "", jie_qi, "ErShiSiJieQi")
                \o when(hit_r, "RuMei", "JieQiMinSu")
                \o when(hit_c, "ChuMei", "JieQiMinSu")
                \o when(lunar.shujiu.present /\ lunar.shujiu.index = 1
                        /\ lunar.shujiu.name \in Range(ShuJiuNames),
                        jiu_title, "JieQiMinSu")
                \o when(lunar.fu.present /\ lunar.fu.index = 1, fu_name, "JieQiMinSu")
                \o when(l_day = 1 /\ lunar.month_cn \in {"Zheng", "Dong", "La"},
                        "JinRu" \o lunar.month_cn \o "Yue", "NongLiYueFen")
                \o (IF InTable(FIXED_FESTIVALS_LUNAR, <<l_month, l_day>>)
                    THEN <<Emission(n, Lookup(FIXED_FESTIVALS_LUNAR, <<l_month, l_day>>),
                                    "ChuanTongJieRi")>>
                    ELSE <<>>)
                \o when(tomorrow_lunar.jieqi = "QingMing", "HanShiJie", "ChuanTongJieRi")
                \o when(l_month = 1 /\ l_day = 1, "ChunJie", "ChuanTongJieRi")
                \o when(tomorrow_lunar.month = 1 /\ tomorrow_lunar.day = 1,
                        "ChuXi", "ChuanTongJieRi"),
              looking_for_rumei |-> IF hit_r THEN FALSE ELSE r1,
              looking_for_chumei |-> IF hit_c THEN FALSE ELSE c1]
    IN pass(Lunar(o, n), Lunar(o, n + 1))

\* the body of the replay loop raises for this snapshot
\* (KeyError of ev[...], ValueError of strptime)
SnapshotRaises(ev) ==
    \/ ~({"start", "end", "summary", "description"} \subseteq DOMAIN ev)
    \/ ~CanStrpYmd(ev.start)
    \/ ~CanStrpYmd(ev.end)

\* the body of the replay loop for one snapshot, with ev.get("is_allday", True)
replay_snapshot(evs, ev) ==
    create_event(evs, StrpYmd(ev.start), StrpYmd(ev.end), ev.summary,
                 ev.description,
                 IF "is_allday" \in DOMAIN ev THEN ev.is_allday ELSE TRUE)

\* the replay loop: the snapshots before the first one that raises are
\* replayed; ok tells whether the loop ran to its end
replay_cache(evs, snaps) ==
    LET bad == {i \in 1..Len(snaps) : SnapshotRaises(snaps[i])}
        stop == IF bad = {} THEN Len(snaps) + 1 ELSE Min(bad)
    IN [events |-> evs \o Flatten([i \in 1..(stop - 1) |->
                                     replay_snapshot(<<>>, snaps[i])]),
        ok |-> bad = {}]

-----------------------------------------------------------------------------
(* Serializer.  A text is the list of its LF-separated segments: the       *)
(* string "a\r\nb" is <<"a\r", "b">>.                                      *)

TZ_ID == "Asia/Shanghai"

\* the segments of "\r\n".join(lines), given that a further line follows
\* the last one (more) or not
CrlfSegments(lines, more) ==
    Flatten([i \in 1..Len(lines) |->
        LET p == Split(lines[i], "\n")
        IN IF i < Len(lines) \/ more THEN [p EXCEPT ![Len(p)] = @ \o "\r"] ELSE p])

CharRank(c) == CHOOSE i \in 1..11 : CharAt("0123456789T", i) = c

\* a < b for strings over the digits and T
StrLess(a, b) ==
    LET n == IF Len(a) < Len(b) THEN Len(a) ELSE Len(b)
        diff == {i \in 1..n : CharAt(a, i) # CharAt(b, i)}
    IN IF diff = {} THEN Len(a) < Len(b)
       ELSE CharRank(CharAt(a, Min(diff))) < CharRank(CharAt(b, Min(diff)))

\* the place of evs[i] after a stable sort by dtstart
SortedPlace(evs, i) ==
    Cardinality({j \in 1..Len(evs) :
                    \/ StrLess(evs[j].dtstart, evs[i].dtstart)
                    \/ (j < i /\ evs[j].dtstart = evs[i].dtstart)}) + 1

\* self.events.sort(key=lambda x: x['dtstart']), a stable sort
sort_events(evs) ==
    LET place == List([i \in 1..Len(evs) |-> SortedPlace(evs, i)])
    IN List([p \in 1..Len(evs) |-> evs[CHOOSE i \in 1..Len(evs) : place[i] = p]])

\* 中国节假日 年中国放假、调休和补班日历 更新时间
HeaderLines(update_time_str) == <<
    "BEGIN:VCALENDAR",
    "PRODID:-//365day.top//China Public Holidays 2.0//CN",
    "VERSION:2.0",
    "CALSCALE:GREGORIAN",
    "METHOD:PUBLISH",
    "X-WR-CALNAME:ZhongGuoJieJiaRi",
    "X-WR-TIMEZONE:" \o TZ_ID,
    "X-WR-CALDESC:" \o ToString(TRADITIONAL_START_YEAR) \o "~"
        \o ToString(TRADITIONAL_END_YEAR)
        \o "NianZhongGuoFangJia,TiaoXiuHeBuBanRiLi GengXinShiJian"
        \o update_time_str,
    "REFRESH-INTERVAL;VALUE=DURATION:PT24H",
    "X-PUBLISHED-TTL:PT24H",
    "X-APPLE-CALENDAR-COLOR:#E62325",
    "BEGIN:VTIMEZONE",
    "TZID:" \o TZ_ID,
    "X-LIC-LOCATION:" \o TZ_ID,
    "BEGIN:STANDARD",
    "TZOFFSETFROM:+0800",
    "TZOFFSETTO:+0800",
    "TZNAME:CST",
    "DTSTART:19700101T000000",
    "END:STANDARD",
    "END:VTIMEZONE" >>

\* the lines of one VEVENT
EventLines(ev, now_stamp) ==
    <<"BEGIN:VEVENT">>
    \o (IF ev.is_allday
        THEN <<"DTSTART;VALUE=DATE:" \o ev.dtstart, "DTEND;VALUE=DATE:" \o ev.dtend>>
        ELSE <<"DTSTART;TZID=" \o TZ_ID \o ":" \o ev.dtstart,
               "DTEND;TZID=" \o TZ_ID \o ":" \o ev.dtend>>)
    \o <<"DTSTAMP:" \o now_stamp, "UID:" \o ev.uid, "CREATED:" \o ev.created>>
    \o (IF ev.description # "" THEN <<fold_line("DESCRIPTION:" \o ev.description)>>
        ELSE <<>>)
    \o <<"LAST-MODIFIED:" \o now_stamp, "STATUS:" \o ev.status,
         fold_line("SUMMARY:" \o ev.summary), "TRANSP:" \o ev.transp>>
    \o (IF "alarm" \in DOMAIN ev
        THEN <<"BEGIN:VALARM", "TRIGGER:-P1D", "ACTION:DISPLAY",
               fold_line("DESCRIPTION:" \o ev.alarm), "END:VALARM">>
        ELSE <<>>)
    \o <<"END:VEVENT">>

\* the text generate_ics_content returns for the sorted event list
generate_ics_content(sorted_events, update_time_str, now_stamp) ==
    CrlfSegments(HeaderLines(update_time_str), TRUE)
    \o Flatten([i \in 1..Len(sorted_events) |->
                  CrlfSegments(EventLines(sorted_events[i], now_stamp), TRUE)])
    \o <<"END:VCALENDAR">>

\* what open(OUTPUT_FILENAME, 'r').read() returns for the stored text:
\* universal newlines turn "\r\n" and a lone "\r" into "\n"
UniversalSegment(seg, is_last) ==
    LET body == IF ~is_last /\ Len(seg) > 0 /\ CharAt(seg, Len(seg)) = "\r"
                THEN SubSeq(seg, 1, Len(seg) - 1)
                ELSE seg
    IN Split(body, "\r")

ReadText(text) ==
    Flatten([i \in 1..Len(text) |-> UniversalSegment(text[i], i = Len(text))])

UpdateTimeLabel == "GengXinShiJian"   \* 更新时间

\* t matches \d{4}-\d{2}-\d{2} \d{2}:\d{2}:\d{2}
IsDisplayTime(t) ==
    /\ Len(t) = 19
    /\ \A i \in {1, 2, 3, 4, 6, 7, 9, 10, 12, 13, 15, 16, 18, 19} : IsDigit(CharAt(t, i))
    /\ CharAt(t, 5) = "-" /\ CharAt(t, 8) = "-" /\ CharAt(t, 11) = " "
    /\ CharAt(t, 14) = ":" /\ CharAt(t, 17) = ":"

\* position of the first match of the update-time pattern in seg, 0 if none
UpdateTimeMatch(seg) ==
    LET n == Len(UpdateTimeLabel)
        hits == {i \in 1..(Len(seg) - n - 18) :
                    /\ SubSeq(seg, i, i + n - 1) = UpdateTimeLabel
                    /\ IsDisplayTime(SubSeq(seg, i + n, i + n + 18))}
    IN IF hits = {} THEN 0 ELSE Min(hits)

RECURSIVE RemoveUpdateTime(_)
\* re.sub of the update-time pattern by "" within one segment
RemoveUpdateTime(seg) ==
    LET i == UpdateTimeMatch(seg)
        n == Len(UpdateTimeLabel) + 19
    IN IF i = 0 THEN seg
       ELSE SubSeq(seg, 1, i - 1) \o RemoveUpdateTime(SubSeq(seg, i + n, Len(seg)))

\* re.sub(pat + ".*", "", seg): the dot does not match "\n" and matches "\r"
RemoveToEnd(seg, pat) ==
    LET i == Find(seg, pat)
    IN IF i = 0 THEN seg ELSE SubSeq(seg, 1, i - 1)

IsSpace(c) == c \in {" ", "\t", "\r"}
AllSpace(seg) == \A i \in 1..Len(seg) : IsSpace(CharAt(seg, i))

RECURSIVE LStrip(_)
LStrip(seg) ==
    IF Len(seg) > 0 /\ IsSpace(CharAt(seg, 1)) THEN LStrip(SubSeq(seg, 2, Len(seg)))
    ELSE seg

RECURSIVE RStrip(_)
RStrip(seg) ==
    IF Len(seg) > 0 /\ IsSpace(CharAt(seg, Len(seg)))
    THEN RStrip(SubSeq(seg, 1, Len(seg) - 1))
    ELSE seg

RECURSIVE LStripText(_)
LStripText(text) ==
    IF Len(text) > 1 /\ AllSpace(text[1]) THEN LStripText(Tail(text))
    ELSE <<LStrip(text[1])>> \o Tail(text)

RECURSIVE RStripText(_)
RStripText(text) ==
    IF Len(text) > 1 /\ AllSpace(text[Len(text)])
    THEN RStripText(SubSeq(text, 1, Len(text) - 1))
    ELSE SubSeq(text, 1, Len(text) - 1) \o <<RStrip(text[Len(text)])>>

clean_segment(seg) ==
    RemoveToEnd(RemoveToEnd(RemoveToEnd(RemoveUpdateTime(seg), "DTSTAMP:"),
                            "LAST-MODIFIED:"),
                "CREATED:")

\* clean of is_content_same, text.strip() last
clean(text) ==
    RStripText(LStripText(List([i \in 1..Len(text) |-> clean_segment(text[i])])))

EmptyText == <<"">>

is_content_same(old_text, new_text) ==
    IF old_text = EmptyText THEN FALSE
    ELSE clean(old_text) = clean(new_text)

\* group(1) of re.search of the update-time pattern in text, "" if no match
search_display_time(text) ==
    LET hits == {i \in 1..Len(text) : UpdateTimeMatch(text[i]) # 0}
    IN IF hits = {} THEN ""
       ELSE LET seg == text[Min(hits)]
                k == UpdateTimeMatch(seg) + Len(UpdateTimeLabel)
            IN SubSeq(seg, k, k + 18)

\* final_content of save_file
final_content(sorted_events, old_file, current_display_time, now_stamp) ==
    LET new_content_full ==
            generate_ics_content(sorted_events, current_display_time, now_stamp)
        old_content == IF old_file.exists THEN ReadText(old_file.text) ELSE EmptyText
        old_display_time == IF old_file.exists THEN search_display_time(old_content)
                            ELSE ""
    IN IF is_content_same(old_content, new_content_full)
       THEN IF old_display_time # ""
            THEN generate_ics_content(sorted_events, old_display_time, now_stamp)
            ELSE new_content_full
       ELSE new_content_full

-----------------------------------------------------------------------------
(* Inputs: datasets, the behaviour of the network and the disk, almanacs,  *)
(* year ranges and the files found at the first start.                     *)

Bytes(tag, doc) == [valid |-> TRUE, doc |-> doc, raw |-> tag]
\* bytes that are no JSON document
Garbage(tag) == [valid |-> FALSE, doc |-> JDict(<<>>), raw |-> tag]

NoDataFile == [exists |-> FALSE, content |-> Garbage("")]
DataFile(content) == [exists |-> TRUE, content |-> content]

Named(nm) == JDict(<<Item("name", JStr(nm))>>)

\* the dataset of the scenario of the specification; 国庆节
Doc1 == JDict(<<
    Item("holidays", JDict(<<Item("2025-10-01", Named("GuoQingJie")),
                             Item("2025-10-02", Named("GuoQingJie")),
                             Item("2025-10-03", Named("GuoQingJie"))>>)),
    Item("workdays", JDict(<<Item("2025-09-28", Named("GuoQingJie"))>>)) >>)

\* comma-joined entries, two periods of one name, a second group, an entry
\* without a name, a date that does not parse, a group of workdays only; 元旦
Doc2 == JDict(<<
    Item("holidays", JDict(<<Item("2025-10-02", JStr("National Day,GuoQingJie,3")),
                             Item("2025-10-01", JStr("National Day,GuoQingJie,3")),
                             Item("2025-01-01", JStr("New Year,YuanDan,1")),
                             Item("2025-10-20", JStr("National Day,GuoQingJie,3")),
                             Item("2025-05-01", JStr("nameless")),
                             Item("2025-02-30", Named("YuanDan"))>>)),
    Item("workdays", JDict(<<Item("2025-10-11", JStr("National Day,GuoQingJie,3")),
                             Item("2025-09-28", Named("GuoQingJie")),
                             Item("2025-04-27", Named("LaoDongJie"))>>)) >>)

Content1 == Bytes("doc1", Doc1)
Content2 == Bytes("doc2", Doc2)
\* the legacy flat mapping
Content3 == Bytes("doc3", JDict(<<Item("2025-01-01", Named("YuanDan")),
                                  Item("2025-01-02", Named("YuanDan"))>>))

\* what one call of ensure_data_file meets: the request succeeds with a
\* body or fails; the write of the local copy succeeds, fails at open (the
\* file is left as it was) or fails after open (the file is truncated)
Reply(content, disk) == [http |-> "ok", content |-> content, disk |-> disk]
HttpError == [http |-> "error", content |-> Garbage(""), disk |-> "ok"]

\* the outcome met by process number k: scripts repeat their last entry
NetOutcome(script, k) == IF k <= Len(script) THEN script[k] ELSE script[Len(script)]

Term(m, d, name) == [key |-> <<m, d>>, name |-> name]

\* 清明 芒种 小暑 冬至
Almanac(v) ==
    [terms |-> <<Term(4, 4, "QingMing"), Term(6, 5, "MangZhong"),
                 Term(7, 7, "XiaoShu"), Term(12, 21, "DongZhi")>>,
     gan0 |-> v % 10, zhi0 |-> v,
     lny |-> <<1, 29>>, jiu |-> <<12, 21>>, fu |-> <<7, 15>>]

\* an almanac that reports the two arming terms in the last days of the
\* year, and the first of them twice
LateAlmanac(v) ==
    [Almanac(v) EXCEPT !.terms =
        <<Term(4, 4, "QingMing"), Term(6, 5, "MangZhong"),
          Term(12, 27, "XiaoShu"), Term(12, 30, "MangZhong")>>]

Almanacs == {Almanac(v) : v \in 0..11} \cup {LateAlmanac(v) : v \in {0, 5}}

NoCacheFile == [exists |-> FALSE, readable |-> FALSE,
                data |-> [start_year |-> 0, end_year |-> 0, events |-> <<>>]]
\* a cache file that json.load rejects
UnreadableCache == [NoCacheFile EXCEPT !.exists = TRUE]
CacheFile(sy, ey, snaps) ==
    [exists |-> TRUE, readable |-> TRUE,
     data |-> [start_year |-> sy, end_year |-> ey, events |-> snaps]]

\* a snapshot as the program writes it, and two that make the replay raise
GoodSnap(y) == Snapshot(Midnight(Ord(y, 1, 10)), Midnight(Ord(y, 1, 11)),
                        "ZhongGuoRenMinJingChaJie", "GongLiJieRi", TRUE)
SnapNoEnd(y) == [start |-> StrfYmd(Midnight(Ord(y, 2, 14))), summary |-> "QingRenJie",
                 description |-> "GongLiJieRi", is_allday |-> TRUE]
SnapBadDate(y) == [GoodSnap(y) EXCEPT !.start = "2025"]

\* the cache files a first process may find, for the range sy..ey
InitialCaches(sy, ey) == {
    NoCacheFile,
    CacheFile(sy, ey, <<GoodSnap(sy)>>),
    UnreadableCache,
    CacheFile(sy - 1, ey, <<GoodSnap(sy)>>),
    CacheFile(sy, ey + 1, <<GoodSnap(sy)>>),
    CacheFile(sy, ey, <<SnapNoEnd(sy), GoodSnap(sy)>>),
    CacheFile(sy, ey, <<GoodSnap(sy), SnapNoEnd(sy)>>),
    CacheFile(sy, ey, <<GoodSnap(sy), GoodSnap(sy + 1), SnapBadDate(sy)>>) }

NetScripts == {
    <<Reply(Content1, "ok")>>,
    <<Reply(Content1, "ok"), HttpError>>,
    <<HttpError>>,
    <<Reply(Content1, "ok"), Reply(Garbage("<html>"), "ok")>>,
    <<Reply(Garbage("<html>"), "ok")>>,
    <<Reply(Content1, "ok"), Reply(Content2, "write_fails")>>,
    <<Reply(Content1, "ok"), Reply(Content2, "open_fails")>>,
    <<Reply(Content2, "open_fails")>>,
    <<Reply(Content1, "ok"), Reply(Content2, "ok")>>,
    <<Reply(Content2, "ok")>>,
    <<Reply(Content3, "ok")>> }

InitialDataFiles == {NoDataFile, DataFile(Content1)}

Scenario(sy, ey, alm, script, df, cf) ==
    [start_year |-> sy, end_year |-> ey, almanac |-> alm, net |-> script,
     data_file |-> df, cache_file |-> cf]

DefaultScript == <<Reply(Content1, "ok")>>

\* the first years of the configured range
RunYears == <<2025, 2026>>

Scenarios ==
    \* every almanac, over one year
    {Scenario(RunYears[1], RunYears[1], a, DefaultScript, NoDataFile, NoCacheFile) :
        a \in Almanacs}
    \* two years, with the arming terms in summer and at the end of the year
    \cup {Scenario(RunYears[1], RunYears[2], a, DefaultScript, NoDataFile, NoCacheFile) :
            a \in {Almanac(0), LateAlmanac(0), LateAlmanac(5)}}
    \* single years around the two reunification years, and 2024
    \cup {Scenario(y, y, Almanac(0), DefaultScript, NoDataFile, NoCacheFile) :
            y \in {1997, 1998, 1999, 2000, 2024}}
    \* every behaviour of the network and the disk, with a cache file at hand
    \cup {Scenario(RunYears[1], RunYears[1], Almanac(3), n, d,
                   CacheFile(RunYears[1], RunYears[1], <<GoodSnap(RunYears[1])>>)) :
            n \in NetScripts, d \in InitialDataFiles}
    \* every cache file
    \cup {Scenario(RunYears[1], RunYears[1], Almanac(3), DefaultScript, NoDataFile, c) :
            c \in InitialCaches(RunYears[1], RunYears[1])}

-----------------------------------------------------------------------------
(* The processes.                                                          *)

NoOutput == [exists |-> FALSE, text |-> EmptyText]

config == <<net, oracle, TRADITIONAL_START_YEAR, TRADITIONAL_END_YEAR>>
harness == <<args, ret>>
loop == <<year, curr, looking_for_rumei, looking_for_chumei>>
observed == <<run_no, path, mark0, mark, oracle_queries, cache_writes, fetch>>

Init ==
    \E sc \in Scenarios :
        /\ data_file = sc.data_file
        /\ cache_file = sc.cache_file
        /\ output_file = NoOutput
        /\ net = sc.net
        /\ oracle = sc.almanac
        /\ now = 0
        /\ TRADITIONAL_START_YEAR = sc.start_year
        /\ TRADITIONAL_END_YEAR = sc.end_year
        /\ events = <<>>
        /\ raw_data = JDict(<<>>)
        /\ holiday_groups = <<>>
        /\ traditional_cache_list = <<>>
        /\ pc = "idle"
        /\ year = 0
        /\ curr = 0
        /\ looking_for_rumei = FALSE
        /\ looking_for_chumei = FALSE
        /\ exit_status = 0
        /\ run_no = 0
        /\ path = "none"
        /\ mark0 = 0
        /\ mark = 0
        /\ oracle_queries = 0
        /\ cache_writes = 0
        /\ fetch = "none"
        /\ hist = <<>>
        /\ args = <<>>
        /\ ret = <<>>

\* what is kept of a process when it ends; events is self.events at the end
Finished(status, how, final_events, out) ==
    [exit |-> status,
     fetch |-> how,
     path |-> path,
     dataset |-> raw_data,
     events |-> final_events,
     trad |-> SubSeq(final_events, mark0 + 1, Len(final_events)),
     recomputed |-> SubSeq(final_events, mark + 1, Len(final_events)),
     out |-> out,
     oracle_queries |-> oracle_queries,
     cache_writes |-> cache_writes]

\* a process starts: CalendarGenerator() and then run()
Construct ==
    /\ pc \in {"idle", "done", "exited"}
    /\ run_no < MaxRuns
    /\ run_no' = run_no + 1
    /\ now' = now + 1
    /\ events' = <<>>
    /\ raw_data' = JDict(<<>>)
    /\ holiday_groups' = <<>>
    /\ traditional_cache_list' = <<>>
    /\ pc' = "ensure"
    /\ exit_status' = 0
    /\ path' = "none"
    /\ mark0' = 0
    /\ mark' = 0
    /\ oracle_queries' = 0
    /\ cache_writes' = 0
    /\ fetch' = "none"
    /\ UNCHANGED <<data_file, cache_file, output_file, config, loop, hist, harness>>

\* the dataset file as the try block of ensure_data_file leaves it
DataFileAfterTry(o) ==
    IF o.http = "ok" /\ (~data_file.exists \/ data_file.content # o.content)
    THEN CASE o.disk = "ok" -> DataFile(o.content)
           [] o.disk = "open_fails" -> data_file
           [] o.disk = "write_fails" -> DataFile(Garbage(""))
    ELSE data_file

\* the try block of ensure_data_file runs to its end
TrySucceeds(o) ==
    /\ o.http = "ok"
    /\ (~data_file.exists \/ data_file.content # o.content) => o.disk = "ok"
    /\ o.content.valid

\* how ensure_data_file ends: "fresh", "fallback", "exit" (exit(1)) or
\* "crash" (json.load of the local copy raises in the handler)
EnsureOutcome(o) ==
    IF TrySucceeds(o) THEN "fresh"
    ELSE IF DataFileAfterTry(o).exists
         THEN (IF DataFileAfterTry(o).content.valid THEN "fallback" ELSE "crash")
         ELSE "exit"

ensure_data_file ==
    /\ pc = "ensure"
    /\ LET o == NetOutcome(net, run_no)
           how == EnsureOutcome(o)
       IN /\ data_file' = DataFileAfterTry(o)
          /\ fetch' = how
          /\ raw_data' = CASE how = "fresh" -> o.content.doc
                           [] how = "fallback" -> DataFileAfterTry(o).content.doc
                           [] OTHER -> raw_data
          /\ IF how \in {"fresh", "fallback"}
             THEN /\ pc' = "parse"
                  /\ UNCHANGED <<exit_status, hist>>
             ELSE /\ pc' = "exited"
                  /\ exit_status' = 1
                  /\ hist' = Append(hist, [Finished(1, how, events, EmptyText)
                                             EXCEPT !.dataset = raw_data])
    /\ UNCHANGED <<cache_file, output_file, config, now, events, holiday_groups,
                   traditional_cache_list, loop, run_no, path, mark0, mark,
                   oracle_queries, cache_writes, harness>>

parse_holidays_step ==
    /\ pc = "parse"
    /\ holiday_groups' = parse_holidays(raw_data)
    /\ pc' = "holiday"
    /\ UNCHANGED <<data_file, cache_file, output_file, config, now, events, raw_data,
                   traditional_cache_list, loop, exit_status, observed, hist, harness>>

process_holiday_events_step ==
    /\ pc = "holiday"
    /\ events' = process_holiday_events(events, holiday_groups, get_now_utc_stamp)
    /\ pc' = "trad"
    /\ UNCHANGED <<data_file, cache_file, output_file, config, now, raw_data,
                   holiday_groups, traditional_cache_list, loop, exit_status,
                   observed, hist, harness>>

\* the cache check of add_traditional_events: replay and return, or fall
\* through to the recomputation with whatever the replay appended
cache_check ==
    /\ pc = "trad"
    /\ LET matches == /\ cache_file.exists
                      /\ cache_file.readable
                      /\ cache_file.data.start_year = TRADITIONAL_START_YEAR
                      /\ cache_file.data.end_year = TRADITIONAL_END_YEAR
           r == IF matches THEN replay_cache(events, cache_file.data.events)
                ELSE [events |-> events, ok |-> FALSE]
       IN /\ events' = r.events
          /\ mark0' = Len(events)
          /\ IF matches /\ r.ok
             THEN /\ path' = "replay"
                  /\ pc' = "save"
                  /\ mark' = Len(events)
                  /\ UNCHANGED <<traditional_cache_list, year>>
             ELSE /\ path' = "recompute"
                  /\ traditional_cache_list' = <<>>
                  /\ mark' = Len(r.events)
                  /\ year' = TRADITIONAL_START_YEAR
                  /\ pc' = IF TRADITIONAL_START_YEAR <= TRADITIONAL_END_YEAR
                           THEN "year" ELSE "write"
    /\ UNCHANGED <<data_file, cache_file, output_file, config, now, raw_data,
                   holiday_groups, curr, looking_for_rumei, looking_for_chumei,
                   exit_status, run_no, oracle_queries, cache_writes, fetch, hist,
                   harness>>

\* year_pass without the reset of the two triggers
year_pass_keeping_triggers ==
    /\ pc = "year"
    /\ LET st0 == [events |-> events, traditional_cache_list |-> traditional_cache_list]
           st1 == record_all(st0, fixed_solar_pass(year) \o dynamic_solar_pass(year))
       IN /\ events' = st1.events
          /\ traditional_cache_list' = st1.traditional_cache_list
    /\ curr' = Ord(year, 1, 1)
    /\ pc' = "day"
    /\ UNCHANGED <<data_file, cache_file, output_file, config, now, raw_data,
                   holiday_groups, year, exit_status, observed, hist, harness,
                   looking_for_rumei, looking_for_chumei>>

\* the head of one iteration of the loop over the years: the fixed solar
\* festivals, the weekday festivals and the reset of the day loop
year_pass ==
    /\ pc = "year"
    /\ LET st0 == [events |-> events, traditional_cache_list |-> traditional_cache_list]
           st1 == record_all(st0, fixed_solar_pass(year) \o dynamic_solar_pass(year))
       IN /\ events' = st1.events
          /\ traditional_cache_list' = st1.traditional_cache_list
    /\ curr' = Ord(year, 1, 1)
    /\ looking_for_rumei' = FALSE
    /\ looking_for_chumei' = FALSE
    /\ pc' = "day"
    /\ UNCHANGED <<data_file, cache_file, output_file, config, now, raw_data,
                   holiday_groups, year, exit_status, observed, hist, harness>>

\* one iteration of the loop over the days; after December 31 the loop
\* over the years goes on or ends
day_step ==
    /\ pc = "day"
    /\ curr <= Ord(year, 12, 31)
    /\ \E r \in {lunar_day_pass(looking_for_rumei, looking_for_chumei, oracle, curr)} :
       \E st1 \in {record_all([events |-> events,
                                traditional_cache_list |-> traditional_cache_list],
                               r.emits)} :
          /\ events' = st1.events
          /\ traditional_cache_list' = st1.traditional_cache_list
          /\ looking_for_rumei' = r.looking_for_rumei
          /\ looking_for_chumei' = r.looking_for_chumei
    /\ curr' = curr + 1
    /\ oracle_queries' = oracle_queries + 2
    /\ IF curr < Ord(year, 12, 31)
       THEN UNCHANGED <<pc, year>>
       ELSE IF year < TRADITIONAL_END_YEAR
            THEN pc' = "year" /\ year' = year + 1
            ELSE pc' = "write" /\ UNCHANGED year
    /\ UNCHANGED <<data_file, cache_file, output_file, config, now, raw_data,
                   holiday_groups, exit_status, run_no, path, mark0, mark,
                   cache_writes, fetch, hist, harness>>

\* the tail of add_traditional_events: the cache file is rewritten
write_cache ==
    /\ pc = "write"
    /\ cache_file' = CacheFile(TRADITIONAL_START_YEAR, TRADITIONAL_END_YEAR,
                               traditional_cache_list)
    /\ cache_writes' = cache_writes + 1
    /\ pc' = "save"
    /\ UNCHANGED <<data_file, output_file, config, now, events, raw_data,
                   holiday_groups, traditional_cache_list, loop, exit_status,
                   run_no, path, mark0, mark, oracle_queries, fetch, hist, harness>>

save_file ==
    /\ pc = "save"
    /\ LET sorted == sort_events(events)
           final == final_content(sorted, output_file, get_now_display,
                                  get_now_utc_stamp)
       IN /\ events' = sorted
          /\ output_file' = [exists |-> TRUE, text |-> final]
          /\ hist' = Append(hist, [Finished(0, fetch, events, final)
                                     EXCEPT !.events = sorted])
    /\ pc' = "done"
    /\ UNCHANGED <<data_file, cache_file, config, now, raw_data, holiday_groups,
                   traditional_cache_list, loop, exit_status, observed, harness>>

Next ==
    \/ Construct
    \/ ensure_data_file
    \/ parse_holidays_step
    \/ process_holiday_events_step
    \/ cache_check
    \/ year_pass
    \/ day_step
    \/ write_cache
    \/ save_file

Spec == Init /\ [][Next]_vars

-----------------------------------------------------------------------------
(* Single operations.  Each specification below starts one operation of    *)
(* the program on every input of a bounded set and runs it to its return.  *)

\* the state of a process around the operation under study
Around(sy, ey, at) ==
    /\ data_file = NoDataFile
    /\ cache_file = NoCacheFile
    /\ output_file = NoOutput
    /\ net = DefaultScript
    /\ oracle = Almanac(0)
    /\ now = 1
    /\ TRADITIONAL_START_YEAR = sy
    /\ TRADITIONAL_END_YEAR = ey
    /\ events = <<>>
    /\ raw_data = JDict(<<>>)
    /\ traditional_cache_list = <<>>
    /\ pc = at
    /\ curr = 0
    /\ looking_for_rumei = FALSE
    /\ looking_for_chumei = FALSE
    /\ exit_status = 0
    /\ run_no = 1
    /\ path = "none"
    /\ mark0 = 0
    /\ mark = 0
    /\ oracle_queries = 0
    /\ cache_writes = 0
    /\ fetch = "none"
    /\ hist = <<>>
    /\ ret = <<>>

\* the days the date lists are drawn from: 2025-01-30 and the days after it
BlockDays == {Ord(RunYears[1], 1, 30) + i : i \in 0..MaxSpan}

\* the date lists of at most MaxLen entries, unsorted and with duplicates
DateLists == UNION {[1..n -> BlockDays] : n \in 0..MaxLen}

InitBlocks ==
    \E dates \in DateLists :
        /\ Around(RunYears[1], RunYears[1], "call_blocks")
        /\ holiday_groups = <<>>
        /\ year = 0
        /\ args = dates

call_get_consecutive_blocks ==
    /\ pc = "call_blocks"
    /\ ret' = get_consecutive_blocks(args)
    /\ pc' = "returned_blocks"
    /\ UNCHANGED <<data_file, cache_file, output_file, config, now, events, raw_data,
                   holiday_groups, traditional_cache_list, loop, exit_status,
                   observed, hist, args>>

SpecBlocks == InitBlocks /\ [][call_get_consecutive_blocks]_vars

\* the first day of the holidays of the group under study: 2025-10-01
HolidayBase == Ord(RunYears[1], 10, 1)

HolidayDays == {HolidayBase + i : i \in 0..(MaxSpan - 1)}

\* workdays just outside and just inside the window before the first
\* holiday and after the last one, and 2025-09-28
WorkDays == {HolidayBase - WindowDays - 1, HolidayBase - WindowDays, HolidayBase - 3,
             HolidayBase + MaxSpan - 1 + WindowDays, HolidayBase + MaxSpan + WindowDays}

Group(nm, h, w) == [name |-> nm, holidays |-> h, workdays |-> w]

\* 国庆节
StudiedGroups ==
    {Group("GuoQingJie", SortedSeq(h), SortedSeq(w)) :
        h \in SUBSET HolidayDays, w \in SUBSET WorkDays}

\* a second group next to it, if any: one of workdays only, one far away
\* with a workday inside the window of the first group, one close by; 中秋节
OtherGroups == {
    <<>>,
    <<Group("ZhongQiuJie", <<>>, <<HolidayBase - 3>>)>>,
    <<Group("ZhongQiuJie", <<HolidayBase + 60>>, <<HolidayBase - 3>>)>>,
    <<Group("ZhongQiuJie", <<HolidayBase + 6, HolidayBase + 5>>,
            <<HolidayBase - 3, HolidayBase - 3, HolidayBase + 30>>)>> }

InitHoliday ==
    \E g \in StudiedGroups, others \in OtherGroups :
        /\ Around(RunYears[1], RunYears[1], "holiday")
        /\ holiday_groups = <<g>> \o others
        /\ year = 0
        /\ args = <<>>

SpecHoliday == InitHoliday /\ [][process_holiday_events_step]_vars

\* the years of the yearly passes under study: 1995 and the years after it
PassYears == 1995..(1995 + MaxYears)

\* the years, months, weekdays and ordinals create_dynamic_solar_event is
\* called with
DynamicArgs ==
    {<<y, m, wd, nth>> : y \in RunYears[1]..(RunYears[1] + 3), m \in 1..12,
                         wd \in 0..6, nth \in 1..MaxNth}

InitYear ==
    \/ \E a \in DynamicArgs :
          /\ Around(a[1], a[1], "call_dynamic")
          /\ holiday_groups = <<>>
          /\ year = a[1]
          /\ args = a
    \/ \E y \in PassYears :
          /\ Around(y, y, "year")
          /\ holiday_groups = <<>>
          /\ year = y
          /\ args = <<>>

\* 节
call_create_dynamic_solar_event ==
    /\ pc = "call_dynamic"
    /\ \E r \in {create_dynamic_solar_event(args[1], args[2], args[3], args[4], "Jie")} :
       \E st1 \in {record_all([events |-> events,
                               traditional_cache_list |-> traditional_cache_list],
                              r.emits)} :
          /\ events' = st1.events
          /\ traditional_cache_list' = st1.traditional_cache_list
          /\ ret' = r.ret
    /\ pc' = "returned_dynamic"
    /\ UNCHANGED <<data_file, cache_file, output_file, config, now, raw_data,
                   holiday_groups, loop, exit_status, observed, hist, args>>

NextYear ==
    \/ call_create_dynamic_solar_event
    \/ year_pass

SpecYear == InitYear /\ [][NextYear]_vars

\* the texts folded: every length up to MaxText, of the letters in turn, with
\* spaces nowhere, at the head, around the first and the second cut, or
\* everywhere
InitFold ==
    \E n \in 0..MaxText :
    \E gaps \in {{}, {1, 2}, {FoldWidth}, {FoldWidth + 1},
                 {FoldWidth, FoldWidth + 1, FoldWidth + 2},
                 {2 * FoldWidth - 1, 2 * FoldWidth}, 1..n} :
        LET letter(i) == IF i \in gaps THEN " "
                         ELSE CharAt("abcdefghijklmnopqrstuvwxyz", (i % 26) + 1)
        IN /\ Around(RunYears[1], RunYears[1], "call_fold")
           /\ holiday_groups = <<>>
           /\ year = 0
           /\ args = Join([i \in 1..n |-> letter(i)], "")

call_fold_line ==
    /\ pc = "call_fold"
    /\ ret' = fold_line(args)
    /\ pc' = "returned_fold"
    /\ UNCHANGED <<data_file, cache_file, output_file, config, now, events, raw_data,
                   holiday_groups, traditional_cache_list, loop, exit_status,
                   observed, hist, args>>

SpecFold == InitFold /\ [][call_fold_line]_vars
-----------------------------------------------------------------------------
(* Properties.                                                             *)

\* the fields of an event that do not depend on the clock
Fields(ev) ==
    [dtstart |-> ev.dtstart, dtend |-> ev.dtend, uid |-> ev.uid,
     summary |-> ev.summary, description |-> ev.description,
     status |-> ev.status, transp |-> ev.transp, is_allday |-> ev.is_allday]

FieldsOf(evs) == [i \in 1..Len(evs) |-> Fields(evs[i])] \o <<>>

\* the events appended since position k
Since(evs, k) == SubSeq(evs, k + 1, Len(evs))

\* C1: when a process ends after an earlier one that had the same dataset
\* and the same events, the document it writes shows the update time the
\* earlier document shows.
C1_SecondRunKeepsUpdateTime ==
    (pc = "done" /\ Len(hist) >= 2) =>
        LET first == hist[Len(hist) - 1]
            second == hist[Len(hist)]
        IN (/\ first.exit = 0
            /\ first.dataset = second.dataset
            /\ FieldsOf(first.events) = FieldsOf(second.events))
           => search_display_time(second.out) = search_display_time(first.out)

\* C2: the blocks returned for a date list are non-empty runs of
\* consecutive days, no run continues the one before it, the dates of the
\* blocks taken together ascend strictly and are the dates of the list, and
\* the empty list gives no block.
C2_BlocksPartitionDates ==
    pc = "returned_blocks" =>
        LET flat == Flatten(ret)
        IN /\ \A b \in 1..Len(ret) :
                /\ Len(ret[b]) >= 1
                /\ \A i \in 1..(Len(ret[b]) - 1) : ret[b][i + 1] - ret[b][i] = 1
           /\ \A b \in 1..(Len(ret) - 1) : ret[b + 1][1] - ret[b][Len(ret[b])] # 1
           /\ \A i \in 1..(Len(flat) - 1) : flat[i] < flat[i + 1]
           /\ Range(flat) = Range(args)
           /\ (args = <<>> => ret = <<>>)

\* C2 witness: an unsorted list with a duplicate gave a block of several
\* days and a block of one day.
C2_Witness ==
    /\ pc = "returned_blocks"
    /\ \E i \in 1..(Len(args) - 1) : args[i] > args[i + 1]
    /\ Cardinality(Range(args)) < Len(args)
    /\ \E b \in 1..Len(ret) : Len(ret[b]) >= 2
    /\ \E b \in 1..Len(ret) : Len(ret[b]) = 1

\* the event that wrote the cache file the current process found
CacheWriter == Max({k \in 1..Len(hist) : hist[k].cache_writes > 0})

\* C3: when the replay of a cache file that an earlier process wrote after
\* its recomputation has returned, the events appended are, in order and in
\* every field but the creation stamp, the events that recomputation
\* appended; no oracle query was made and the cache file was not written.
C3_ReplayEqualsRecomputation ==
    (/\ pc = "save"
     /\ path = "replay"
     /\ \E k \in 1..Len(hist) : hist[k].cache_writes > 0)
    => /\ FieldsOf(Since(events, mark0)) = FieldsOf(hist[CacheWriter].recomputed)
       /\ oracle_queries = 0
       /\ cache_writes = 0

\* C3 witness: a replay of the cache of the process before has returned.
C3_Witness ==
    /\ pc = "save"
    /\ path = "replay"
    /\ Len(hist) >= 1
    /\ hist[Len(hist)].cache_writes > 0
    /\ Len(events) - mark0 > 31
    /\ TRADITIONAL_START_YEAR < TRADITIONAL_END_YEAR

\* C4: when add_traditional_events has recomputed, the traditional events
\* in the event store are the events of the recomputation and no others,
\* and the cache file holds the snapshots of the recomputation.
C4_RecomputationAlone ==
    (pc = "save" /\ path = "recompute") =>
        /\ Since(events, mark0) = Since(events, mark)
        /\ cache_file = CacheFile(TRADITIONAL_START_YEAR, TRADITIONAL_END_YEAR,
                                  traditional_cache_list)

\* C5: a call of ensure_data_file whose fetch fails while the local file
\* holds a dataset goes on with that dataset and leaves the file alone;
\* the process exits with status 1 exactly when the fetch fails and there
\* is no local file, and then writes neither the output nor the cache.
C5_FallbackToLocalDataset ==
    [][(pc = "ensure" /\ pc' # "ensure") =>
        LET o == NetOutcome(net, run_no)
            writes == ~data_file.exists \/ data_file.content # o.content
            failed == \/ o.http # "ok"
                      \/ (writes /\ o.disk # "ok")
                      \/ ~o.content.valid
        IN /\ (failed /\ data_file.exists /\ data_file.content.valid)
                => /\ pc' = "parse"
                   /\ raw_data' = data_file.content.doc
                   /\ data_file' = data_file
           /\ (exit_status' = 1) <=> (failed /\ ~data_file.exists)
           /\ (exit_status' = 1) => (pc' = "exited" /\ output_file' = output_file
                                     /\ cache_file' = cache_file)]_vars

\* the maximal runs of consecutive days of the set of days H
RunStarts(H) == {d \in H : (d - 1) \notin H}
RunEnd(H, first) == Min({d \in H : d >= first /\ (d + 1) \notin H})

\* what is told of an event: its times, title, status, transparency, kind
\* and whether it has a reminder
Told(ev) ==
    [dtstart |-> ev.dtstart, dtend |-> ev.dtend, summary |-> ev.summary,
     status |-> ev.status, transp |-> ev.transp, is_allday |-> ev.is_allday,
     reminder |-> "alarm" \in DOMAIN ev]

BlockTold(name, first, last) ==
    [dtstart |-> StrfYmd(Midnight(first)), dtend |-> StrfYmd(Midnight(last + 1)),
     summary |-> name \o " JiaQi", status |-> "CONFIRMED",
     transp |-> "TRANSPARENT", is_allday |-> TRUE, reminder |-> FALSE]

WorkdayTold(name, day) ==
    [dtstart |-> StrfYmd(Midnight(day)) \o "T090000",
     dtend |-> StrfYmd(Midnight(day)) \o "T180000",
     summary |-> name \o " BuBan", status |-> "TENTATIVE",
     transp |-> "OPAQUE", is_allday |-> FALSE, reminder |-> TRUE]

\* the events due for one group: for each run of its holidays, in
\* ascending order, the block event and then one workday event for each
\* workday of the group within 20 days of the run
GroupTold(g) ==
    LET H == Range(g.holidays)
        W == Range(g.workdays)
        firsts == SortedSeq(RunStarts(H))
        near(first) == SortedSeq({w \in W : /\ first - 20 <= w
                                            /\ w <= RunEnd(H, first) + 20})
    IN Flatten([i \in 1..Len(firsts) |->
          <<BlockTold(g.name, firsts[i], RunEnd(H, firsts[i]))>>
          \o [j \in 1..Len(near(firsts[i])) |->
                WorkdayTold(g.name, near(firsts[i])[j])]])

\* C6: process_holiday_events appends, group by group and run by run of
\* the holidays of the group, one all-day block event from the first day
\* of the run to the day after its last day, and after it one event from
\* 09:00 to 18:00 for each workday of the same group within 20 days of the
\* run; nothing else is appended.
C6_BlockAndWorkdayEvents ==
    pc = "trad" =>
        [i \in 1..Len(events) |-> Told(events[i])] \o <<>>
        = Flatten([k \in 1..Len(holiday_groups) |-> GroupTold(holiday_groups[k])])

\* C6 witness: the holidays 2025-10-01..03 and the workday 2025-09-28 of
\* one group gave the block event 20251001-20251004 and the workday event
\* of 2025-09-28 from 09:00 to 18:00.
C6_Witness ==
    /\ pc = "trad"
    /\ Len(holiday_groups) = 1
    /\ Len(events) = 2
    /\ events[1].dtstart = "20251001" /\ events[1].dtend = "20251004"
    /\ events[2].dtstart = "20250928T090000" /\ events[2].dtend = "20250928T180000"

\* the days of month m of year y that are the nth target weekday
NthWeekday(y, m, wd, nth) ==
    {d \in 1..DaysInMonth(y, m) :
        Weekday(Ord(y, m, d)) = wd /\ 7 * (nth - 1) < d /\ d <= 7 * nth}

\* the positions of the events with this title
Titled(evs, title) == {i \in 1..Len(evs) : evs[i].summary = title}

\* C7: create_dynamic_solar_event appends one all-day event on the N-th
\* target weekday of the month and returns that date when the month has
\* one, and appends nothing and returns None when it has none; the yearly
\* pass appends the Black Friday event, on the day after Thanksgiving, in
\* the years it appends the Thanksgiving event on the fourth Thursday of
\* November, and in no others.
C7_NthWeekdayRule ==
    /\ pc = "returned_dynamic" =>
          LET days == NthWeekday(args[1], args[2], args[3], args[4])
          IN IF days # {}
             THEN /\ \E d \in days : ret = Ord(args[1], args[2], d)
                  /\ Len(events) = 1
                  /\ events[1].is_allday
                  /\ events[1].dtstart = StrfYmd(Midnight(ret))
                  /\ events[1].dtend = StrfYmd(Midnight(ret + 1))
                  /\ events[1].summary = "Jie"
             ELSE ret = None /\ events = <<>>
    /\ pc = "day" =>
          LET thanksgiving == Titled(events, "GanEnJie")
              black_friday == Titled(events, "HeiSeXingQiWu")
              thursdays == NthWeekday(year, 11, 3, 4)
          IN /\ Cardinality(thanksgiving) = Cardinality(thursdays)
             /\ Cardinality(black_friday) = Cardinality(thanksgiving)
             /\ \A i \in thanksgiving : \E d \in thursdays :
                   events[i].dtstart = StrfYmd(Midnight(Ord(year, 11, d)))
             /\ \A i \in black_friday : \E d \in thursdays :
                   events[i].dtstart = StrfYmd(Midnight(Ord(year, 11, d) + 1))

\* C7 witness: the fifth target weekday of a month exists and the event
\* was appended on it.
C7_Witness ==
    /\ pc = "returned_dynamic"
    /\ args[4] = 5
    /\ ret # None
    /\ Len(events) = 1

\* the positions of the events that start on the day date_str of year y
StartingOn(evs, y, date_str) == {i \in 1..Len(evs) : evs[i].dtstart = ToString(y) \o date_str}

\* C8: the yearly pass appends one event for December 20, titled with the
\* anniversary number year - 1999 after 1999 and with the plain name up to
\* 1999; for July 1 it appends the plain name, and after 1997 one more
\* event titled with the anniversary number year - 1997.
C8_AnniversaryRule ==
    (pc = "day" /\ curr = Ord(year, 1, 1)) =>
        LET dec20 == StartingOn(events, year, "1220")
            jul1 == StartingOn(events, year, "0701")
            plain == jul1 \cap Titled(events, "JianDangJie")
        IN /\ Cardinality(dec20) = 1
           /\ \A i \in dec20 :
                 events[i].summary =
                    IF year > 1999
                    THEN "AoMenHuiGuiJiNianRi(" \o ToString(year - 1999) \o "ZhouNian)"
                    ELSE "AoMenHuiGuiJiNianRi"
           /\ Cardinality(plain) = 1
           /\ Cardinality(jul1 \ plain) = IF year > 1997 THEN 1 ELSE 0
           /\ \A i \in jul1 \ plain :
                 events[i].summary =
                    "XiangGangHuiGuiJiNianRi(" \o ToString(year - 1997) \o "ZhouNian)"

\* C8 witness: the pass for 2000 appended the first anniversary.
C8_Witness ==
    /\ pc = "day"
    /\ year = 2000
    /\ Titled(events, "AoMenHuiGuiJiNianRi(1ZhouNian)") # {}
    /\ Titled(events, "XiangGangHuiGuiJiNianRi(3ZhouNian)") # {}

\* C9: every event of the event store ends after it starts.
C9_EndAfterStart ==
    \A i \in 1..Len(events) : StrLess(events[i].dtstart, events[i].dtend)

\* C9 witness: the event store after a replay, with a workday event, a
\* holiday block and traditional events in it.
C9_Witness ==
    /\ pc = "save"
    /\ path = "replay"
    /\ mark0 >= 2
    /\ Len(events) > mark0
    /\ \E i \in 1..mark0 : ~events[i].is_allday

\* the days of the current year, before the day the loop is at, on which
\* the almanac reports the term
TermDays(term) ==
    {Ord(year, oracle.terms[i].key[1], oracle.terms[i].key[2]) :
        i \in {j \in 1..Len(oracle.terms) : oracle.terms[j].name = term}}
    \cap (Ord(year, 1, 1)..(curr - 1))

\* the days from m to the day before curr that bear the sign
SignDays(m, sign(_)) == {d \in m..(curr - 1) : sign(d)}

\* the days before curr on which a trigger armed on a day of `armed` has
\* fired: for each arming, the first day at or after it that bears the sign
Fired(armed, sign(_)) ==
    {Min(SignDays(m, sign)) : m \in {k \in armed : SignDays(k, sign) # {}}}

\* the events of the current year with this title that the recomputation
\* appended
YearTitled(title) ==
    {j \in Titled(events, title) :
        j > mark /\ SubSeq(events[j].dtstart, 1, 4) = ToString(year)}

StartDates(positions) == {events[j].dtstart : j \in positions}

IsBing(d) == OracleDayGan(oracle, d) = "Bing"
IsWei(d) == OracleDayZhi(oracle, d) = "Wei"

\* C10: while the loop over the days is in a year, the start trigger is
\* armed exactly if a MangZhong day of this year lies behind with no Bing
\* day since, and the RuMei events of the year are those of the first Bing
\* day at or after each MangZhong day, one each; the same for the end
\* trigger with XiaoShu, Wei and ChuMei.  On January 1 both are disarmed
\* and the year has no such event.
C10_PlumRainsTriggers ==
    pc \in {"day", "write"} =>
        /\ looking_for_rumei
             = (\E m \in TermDays("MangZhong") : SignDays(m, IsBing) = {})
        /\ looking_for_chumei
             = (\E m \in TermDays("XiaoShu") : SignDays(m, IsWei) = {})
        /\ StartDates(YearTitled("RuMei"))
             = {StrfYmd(Midnight(d)) : d \in Fired(TermDays("MangZhong"), IsBing)}
        /\ StartDates(YearTitled("ChuMei"))
             = {StrfYmd(Midnight(d)) : d \in Fired(TermDays("XiaoShu"), IsWei)}
        /\ Cardinality(YearTitled("RuMei")) = Cardinality(StartDates(YearTitled("RuMei")))
        /\ Cardinality(YearTitled("ChuMei")) = Cardinality(StartDates(YearTitled("ChuMei")))

\* C10 witness: in the second year of a range both events of that year
\* have been appended and both triggers are disarmed again.
C10_Witness ==
    /\ pc = "day"
    /\ year > TRADITIONAL_START_YEAR
    /\ YearTitled("RuMei") # {}
    /\ YearTitled("ChuMei") # {}
    /\ ~looking_for_rumei
    /\ ~looking_for_chumei

-----------------------------------------------------------------------------
\* the positions of the CRLF pairs of s
CrlfCuts(s) == SortedSeq({i \in 1..(Len(s) - 1) : SubSeq(s, i, i + 1) = "\r\n"})

\* the physical lines of s: what stands between its CRLF pairs
PhysicalLines(s) ==
    LET lines(cuts) ==
            List([k \in 1..(Len(cuts) + 1) |->
                    SubSeq(s, IF k = 1 THEN 1 ELSE cuts[k - 1] + 2,
                              IF k > Len(cuts) THEN Len(s) ELSE cuts[k] - 1)])
    IN lines(CrlfCuts(s))

\* s with every CRLF and the one character after it deleted
Unfolded(s) ==
    LET glue(lines) ==
            Join([k \in 1..Len(lines) |->
                    IF k = 1 THEN lines[1] ELSE SubSeq(lines[k], 2, Len(lines[k]))], "")
    IN glue(PhysicalLines(s))

\* C11: fold_line returns, for every text, physical lines joined by CRLF of
\* at most 50 characters each; the first one is the first 50 characters of
\* the text, every later one begins with one added space, and deleting
\* every CRLF with the one space after it gives the text back; a text of at
\* most 50 characters is returned as it is.
C11_FoldLineUnfolds ==
    pc = "returned_fold" =>
        LET check(lines) ==
                /\ \A k \in 1..Len(lines) : Len(lines[k]) <= FoldWidth
                /\ lines[1] = SubSeq(args, 1, Min({FoldWidth, Len(args)}))
                /\ \A k \in 2..Len(lines) : CharAt(lines[k], 1) = " "
                /\ Unfolded(ret) = args
                /\ Len(args) <= FoldWidth => ret = args
        IN check(PhysicalLines(ret))

\* C11 witness: a text of three physical lines whose 51st character is a
\* space has been folded, and its second line begins with two spaces.
C11_Witness ==
    /\ pc = "returned_fold"
    /\ Len(PhysicalLines(ret)) >= 3
    /\ CharAt(args, FoldWidth + 1) = " "
    /\ SubSeq(PhysicalLines(ret)[2], 1, 2) = "  "

-----------------------------------------------------------------------------
\* the positions of the compensatory-workday events
WorkdayEvents(evs) == {i \in 1..Len(evs) : ~evs[i].is_allday}

\* C12: among the events process_holiday_events appends there is at most
\* one compensatory-workday event for a workday date of a group, and no two
\* events have the same unique id, however many blocks the holidays of a
\* group form and however far apart they lie.
C12_OneWorkdayEventUniqueIds ==
    pc = "trad" =>
        /\ \A i, j \in WorkdayEvents(events) :
               (/\ events[i].summary = events[j].summary
                /\ events[i].dtstart = events[j].dtstart) => i = j
        /\ \A i, j \in 1..Len(events) : events[i].uid = events[j].uid => i = j
====
